---- MODULE Spec2Model ----
(***************************************************************************)
(* Order-processing core of the SmartInventory point of sale               *)
(* (src/backend.py, src/app.py): the relational store, the POS carts, the  *)
(* order commit (POSOperator.process_order), the cancellation              *)
(* (Admin.cancel_order), restock, category and settings operations.        *)
(*                                                                         *)
(* Money is kept in hundredths of a rupee (integers), so that 18% of a     *)
(* subtotal of whole rupees is exact.  SQLite row ids of order_items are   *)
(* not modelled: a row is identified by (order_id, product_id), which is   *)
(* unique because a cart is a dict keyed by product id.                    *)
(***************************************************************************)
EXTENDS Integers, Sequences, FiniteSets, TLC

VARIABLES
    db,      \* the SQLite store: one field per table
    cart,    \* st.session_state.cart of every POS browser session
    now,     \* the wall clock, in whole seconds
    last,    \* the latest call of a backend method and what it returned or raised
    calls    \* per admin browser session, how far its cancel_order call has come

vars == <<db, cart, now, last, calls>>

---------------------------------------------------------------------------
(* Bounds of the model *)

MaxClock == 2        \* the clock runs over 1..MaxClock
MaxStock == 2        \* restock is explored while stock stays <= MaxStock
MaxFailAt == 2       \* the storage layer fails at statement 1..MaxFailAt, or not at all (0)
MaxNameLen == 2      \* searched names and queries have 1..MaxNameLen characters
MaxListLen == 3      \* searched lists have 0..MaxListLen items

(* Small input sets *)

Pids == {1, 2}
Mobiles == {"9876543201", "9876543202"}
Sessions == {"tab1", "tab2"}
Admins == {"admin1", "admin2"}
Reasons == {"damaged", "wrong item"}
Passwords == {"Admin@123", "guess"}
GstPercents == {18}
RestockQtys == (0 - 1) .. 1
AdminId == 1

Null == <<>>                 \* SQL NULL / Python None
Some(x) == <<x>>             \* a present TEXT value

---------------------------------------------------------------------------
(* DatabaseManager.seed_data *)

Sha256(p) == <<"sha256", p>>

SeedUsers == (AdminId :> [username |-> "admin", role |-> "admin",
                          password_hash |-> Sha256("Admin@123")])

SeedCategories == (1 :> "Stationery") @@ (2 :> "Snacks")

\* 'Fevicol 100g' (50, 35) and 'Doritos Nacho Cheese' (30, 22)
SeedProducts ==
    (1 :> [name |-> "Fevicol 100g", category_id |-> 1,
           selling_price |-> 5000, cost_price |-> 3500,
           stock |-> 2, sales_count |-> 0])
 @@ (2 :> [name |-> "Doritos Nacho Cheese", category_id |-> 2,
           selling_price |-> 3000, cost_price |-> 2200,
           stock |-> 1, sales_count |-> 0])

SeedCustomers ==
    ("9876543201" :> [total_spent |-> 0, total_visits |-> 0, cancelled_orders |-> 0])

SeedSettings == [gst_enabled |-> "True", gst_percent |-> 18]

SeedOrderId == <<"ORD", 10000>>

\* one history order of one unit of product 1, active or (15%) cancelled
SeedOrders(status) ==
    LET total_sell == SeedProducts[1].selling_price * 1
    IN  SeedOrderId :>
            [customer_mobile |-> "9876543201", operator_username |-> "pos1",
             total_amount |-> total_sell + (total_sell * 18) \div 100,
             gst_amount |-> (total_sell * 18) \div 100,
             payment_mode |-> "CASH", timestamp |-> 0, status |-> status,
             cancellation_reason |->
                 IF status = "cancelled" THEN Some("Customer changed mind") ELSE Null]

SeedData(status) ==
    LET orders == SeedOrders(status)
        o == orders[SeedOrderId]
    IN  [users |-> SeedUsers,
         categories |-> SeedCategories,
         products |->
             IF status = "active"
             THEN [SeedProducts EXCEPT ![1].stock = @ - 1, ![1].sales_count = @ + 1]
             ELSE SeedProducts,
         customers |->
             IF status = "active"
             THEN [SeedCustomers EXCEPT ![o.customer_mobile].total_spent = @ + o.total_amount,
                                        ![o.customer_mobile].total_visits = @ + 1]
             ELSE [SeedCustomers EXCEPT ![o.customer_mobile].cancelled_orders = @ + 1],
         orders |-> orders,
         order_items |-> {[order_id |-> SeedOrderId, product_id |-> 1, quantity |-> 1,
                           price |-> SeedProducts[1].selling_price,
                           cost |-> SeedProducts[1].cost_price]},
         settings |-> SeedSettings]

\* the seeded store before its order history: no order, every counter 0
EmptyStore ==
    [users |-> SeedUsers, categories |-> SeedCategories, products |-> SeedProducts,
     customers |-> SeedCustomers, orders |-> <<>>, order_items |-> {},
     settings |-> SeedSettings]

---------------------------------------------------------------------------
(* SQLite statements and transactions *)

\* the effect of one INSERT / UPDATE statement on the connection's view
ApplyWrite(d, w) ==
    CASE w.kind = "insert_order" ->
            [d EXCEPT !.orders = (w.order_id :> w.row) @@ @]
      [] w.kind = "insert_item" ->
            [d EXCEPT !.order_items = @ \cup {w.row}]
      [] w.kind = "update_product" ->
            \* UPDATE ... WHERE id=?: no row, no effect
            IF w.pid \in DOMAIN d.products
            THEN [d EXCEPT !.products[w.pid].stock = @ + w.stock,
                           !.products[w.pid].sales_count = @ + w.sales]
            ELSE d
      [] w.kind = "update_customer" ->
            IF w.mobile \in DOMAIN d.customers
            THEN [d EXCEPT !.customers[w.mobile].total_spent = @ + w.spent,
                           !.customers[w.mobile].total_visits = @ + w.visits,
                           !.customers[w.mobile].cancelled_orders = @ + w.cancelled]
            ELSE d
      [] w.kind = "update_order" ->
            IF w.order_id \in DOMAIN d.orders
            THEN [d EXCEPT !.orders[w.order_id].status = w.status,
                           !.orders[w.order_id].cancellation_reason = w.reason]
            ELSE d

\* INSERT OR REPLACE: a PRIMARY KEY clash raises nothing
WriteErrorNoClash(d, w, injected) ==
    IF injected THEN "OperationalError" ELSE ""

\* the exception a statement raises: a PRIMARY KEY clash, or an injected
\* failure of the storage layer (a locked database, an I/O error)
WriteError(d, w, injected) ==
    IF w.kind = "insert_order" /\ w.order_id \in DOMAIN d.orders
    THEN "IntegrityError"
    ELSE IF injected THEN "OperationalError" ELSE ""

RECURSIVE RunWrites(_, _, _, _)
RunWrites(d, ws, i, failAt) ==
    IF i > Len(ws)
    THEN [db |-> d, error |-> IF failAt = i THEN "OperationalError" ELSE ""]
    ELSE LET e == WriteError(d, ws[i], failAt = i)
         IN  IF e # ""
             THEN [db |-> d, error |-> e]
             ELSE RunWrites(ApplyWrite(d, ws[i]), ws, i + 1, failAt)

\* every statement of the transaction is visible as soon as it is executed
TransactionAutocommit(d, ws, failAt) ==
    RunWrites(d, ws, 1, failAt)

\* sqlite3 opens a transaction before the first INSERT/UPDATE; the writes are
\* visible to other connections only after conn.commit().  failAt = k makes
\* the k-th statement fail, failAt = Len(ws) + 1 makes the commit fail,
\* failAt = 0 injects nothing.
Transaction(d, ws, failAt) ==
    LET r == RunWrites(d, ws, 1, failAt)
    IN  IF r.error = "" THEN r ELSE [db |-> d, error |-> r.error]

---------------------------------------------------------------------------
(* POSOperator.process_order *)

\* the product ids of a cart, one line after the other
RECURSIVE CartLines(_)
CartLines(pids) ==
    IF pids = {} THEN <<>>
    ELSE LET p == CHOOSE x \in pids : \A y \in pids : x <= y
         IN  <<p>> \o CartLines(pids \ {p})

\* sum(item['selling_price'] * item['qty'] for item in cart.values())
RECURSIVE TotalSelling(_, _)
TotalSelling(c, pids) ==
    IF pids = {} THEN 0
    ELSE LET p == CHOOSE x \in pids : TRUE
         IN  c[p].selling_price * c[p].qty + TotalSelling(c, pids \ {p})

\* the tax is charged whether or not GST is enabled
GstAmtIgnoreSwitch(total_selling, gst_config) ==
    (total_selling * gst_config.percent) \div 100

GstAmt(total_selling, gst_config) ==
    IF gst_config.enabled THEN (total_selling * gst_config.percent) \div 100 ELSE 0

\* f"INV{int(datetime.datetime.now().timestamp())}"
OrderId(t) == <<"INV", t>>

\* stock is lowered by one unit per line, whatever the quantity
LineWritesUnitStock(order_id, pid, item) ==
    << [kind |-> "insert_item",
        row |-> [order_id |-> order_id, product_id |-> pid, quantity |-> item.qty,
                 price |-> item.selling_price, cost |-> item.cost_price]],
       [kind |-> "update_product", pid |-> pid, stock |-> 0 - 1, sales |-> item.qty] >>

\* the sold quantity leaves the shelf and is not counted as sold
LineWritesUncounted(order_id, pid, item) ==
    << [kind |-> "insert_item",
        row |-> [order_id |-> order_id, product_id |-> pid, quantity |-> item.qty,
                 price |-> item.selling_price, cost |-> item.cost_price]],
       [kind |-> "update_product", pid |-> pid, stock |-> 0 - item.qty, sales |-> 0] >>

\* the two statements of one cart line
LineWrites(order_id, pid, item) ==
    << [kind |-> "insert_item",
        row |-> [order_id |-> order_id, product_id |-> pid, quantity |-> item.qty,
                 price |-> item.selling_price, cost |-> item.cost_price]],
       [kind |-> "update_product", pid |-> pid, stock |-> 0 - item.qty, sales |-> item.qty] >>

RECURSIVE CartWrites(_, _, _)
CartWrites(order_id, c, lines) ==
    IF lines = <<>> THEN <<>>
    ELSE LineWrites(order_id, Head(lines), c[Head(lines)])
             \o CartWrites(order_id, c, Tail(lines))

\* the customer is charged the subtotal, without the tax
ProcessOrderWritesSpendSubtotal(username, customer_mobile, c, payment_mode, gst_config, t) ==
    LET total_selling == TotalSelling(c, DOMAIN c)
        gst_amt == GstAmt(total_selling, gst_config)
        final_amt == total_selling + gst_amt
        order_id == OrderId(t)
    IN  << [kind |-> "insert_order", order_id |-> order_id,
            row |-> [customer_mobile |-> customer_mobile, operator_username |-> username,
                     total_amount |-> final_amt, gst_amount |-> gst_amt,
                     payment_mode |-> payment_mode, timestamp |-> t,
                     status |-> "active", cancellation_reason |-> Null]] >>
        \o CartWrites(order_id, c, CartLines(DOMAIN c))
        \o << [kind |-> "update_customer", mobile |-> customer_mobile,
               spent |-> total_selling, visits |-> 1, cancelled |-> 0] >>

ProcessOrderWrites(username, customer_mobile, c, payment_mode, gst_config, t) ==
    LET total_selling == TotalSelling(c, DOMAIN c)
        gst_amt == GstAmt(total_selling, gst_config)
        final_amt == total_selling + gst_amt
        order_id == OrderId(t)
    IN  << [kind |-> "insert_order", order_id |-> order_id,
            row |-> [customer_mobile |-> customer_mobile, operator_username |-> username,
                     total_amount |-> final_amt, gst_amount |-> gst_amt,
                     payment_mode |-> payment_mode, timestamp |-> t,
                     status |-> "active", cancellation_reason |-> Null]] >>
        \o CartWrites(order_id, c, CartLines(DOMAIN c))
        \o << [kind |-> "update_customer", mobile |-> customer_mobile,
               spent |-> final_amt, visits |-> 1, cancelled |-> 0] >>

\* the store after the call, the exception raised ("" when it returns) and
\* the returned (order_id, final_amt, gst_amt)
ProcessOrder(d, username, customer_mobile, c, payment_mode, gst_config, t, failAt) ==
    LET total_selling == TotalSelling(c, DOMAIN c)
        gst_amt == GstAmt(total_selling, gst_config)
        ws == ProcessOrderWrites(username, customer_mobile, c, payment_mode, gst_config, t)
        r == Transaction(d, ws, failAt)
    IN  [db |-> r.db, raised |-> r.error, order_id |-> OrderId(t),
         final_amt |-> total_selling + gst_amt, gst_amt |-> gst_amt]

---------------------------------------------------------------------------
(* Admin.cancel_order, Admin.restock_product, User.verify_password *)

\* the query without its password_hash condition
VerifyPasswordAnyHash(d, user_id, password) ==
    user_id \in DOMAIN d.users

VerifyPassword(d, user_id, password) ==
    user_id \in DOMAIN d.users /\ d.users[user_id].password_hash = Sha256(password)

\* the visit of the cancelled order is kept
CancelOrderWritesKeepVisit(d, order_id, reason) ==
    LET o == d.orders[order_id]
    IN  << [kind |-> "update_order", order_id |-> order_id,
            status |-> "cancelled", reason |-> Some(reason)],
           [kind |-> "update_customer", mobile |-> o.customer_mobile,
            spent |-> 0 - o.total_amount, visits |-> 0, cancelled |-> 1] >>

\* the sold quantities are put back on the shelf
CancelOrderWritesRestock(d, order_id, reason) ==
    LET o == d.orders[order_id]
        lines == {i \in d.order_items : i.order_id = order_id}
        RECURSIVE Back(_)
        Back(ls) ==
            IF ls = {} THEN <<>>
            ELSE LET i == CHOOSE x \in ls : TRUE
                 IN  << [kind |-> "update_product", pid |-> i.product_id,
                         stock |-> i.quantity, sales |-> 0 - i.quantity] >>
                     \o Back(ls \ {i})
    IN  << [kind |-> "update_order", order_id |-> order_id,
            status |-> "cancelled", reason |-> Some(reason)],
           [kind |-> "update_customer", mobile |-> o.customer_mobile,
            spent |-> 0 - o.total_amount, visits |-> 0 - 1, cancelled |-> 1] >>
        \o Back(lines)

\* the cancellation is not counted on the customer
CancelOrderWritesUncounted(d, order_id, reason) ==
    LET o == d.orders[order_id]
    IN  << [kind |-> "update_order", order_id |-> order_id,
            status |-> "cancelled", reason |-> Some(reason)],
           [kind |-> "update_customer", mobile |-> o.customer_mobile,
            spent |-> 0 - o.total_amount, visits |-> 0 - 1, cancelled |-> 0] >>

CancelOrderWrites(d, order_id, reason) ==
    LET o == d.orders[order_id]
    IN  << [kind |-> "update_order", order_id |-> order_id,
            status |-> "cancelled", reason |-> Some(reason)],
           [kind |-> "update_customer", mobile |-> o.customer_mobile,
            spent |-> 0 - o.total_amount, visits |-> 0 - 1, cancelled |-> 1] >>

\* the status of the order is not looked at
CancellableExists(d, order_id) ==
    order_id \in DOMAIN d.orders

\* an order that can be cancelled: it exists and is not cancelled yet
Cancellable(d, order_id) ==
    order_id \in DOMAIN d.orders /\ d.orders[order_id].status # "cancelled"

\* the store after the call and the returned (success, message)
CancelOrder(d, user_id, order_id, reason, password_check, failAt) ==
    IF ~VerifyPassword(d, user_id, password_check)
    THEN [db |-> d, ok |-> FALSE, msg |-> "Invalid Password"]
    ELSE IF ~Cancellable(d, order_id)
    THEN [db |-> d, ok |-> FALSE, msg |-> "Order already cancelled or not found"]
    ELSE LET r == Transaction(d, CancelOrderWrites(d, order_id, reason), failAt)
         IN  IF r.error = ""
             THEN [db |-> r.db, ok |-> TRUE, msg |-> "Order Cancelled Successfully"]
             ELSE [db |-> r.db, ok |-> FALSE, msg |-> r.error]

\* one unit more than asked is put on the shelf
RestockProductOneMore(d, product_id, qty) ==
    IF qty <= 0 THEN [db |-> d, ok |-> FALSE]
    ELSE LET r == Transaction(d, << [kind |-> "update_product", pid |-> product_id,
                                     stock |-> qty + 1, sales |-> 0] >>, 0)
         IN  [db |-> r.db, ok |-> TRUE]

\* the quantity is not looked at
RestockProductAnyQty(d, product_id, qty) ==
    LET r == Transaction(d, << [kind |-> "update_product", pid |-> product_id,
                                stock |-> qty, sales |-> 0] >>, 0)
    IN  [db |-> r.db, ok |-> TRUE]

\* the store after the call and the returned flag
RestockProduct(d, product_id, qty) ==
    IF qty <= 0 THEN [db |-> d, ok |-> FALSE]
    ELSE LET r == Transaction(d, << [kind |-> "update_product", pid |-> product_id,
                                     stock |-> qty, sales |-> 0] >>, 0)
         IN  [db |-> r.db, ok |-> TRUE]

---------------------------------------------------------------------------
(* Admin.manage_category, Admin.update_setting *)

\* a typed name is a record: its text without surrounding blanks, and whether
\* it was typed with surrounding blanks
Strip(name) == name.text

\* not name or not name.strip()
Blank(name) == Strip(name) = ""

\* the stored names equal to the typed name, compared unstripped
RowsNamed(cats, name) == {i \in DOMAIN cats : ~name.padded /\ cats[i] = name.text}

NextCategoryId(cats) ==
    IF DOMAIN cats = {} THEN 1
    ELSE 1 + CHOOSE i \in DOMAIN cats : \A j \in DOMAIN cats : j <= i

\* the name column without its UNIQUE constraint: every add and rename passes
ManageCategoryNoUnique(d, action, name, new_name) ==
    IF Blank(name) THEN [db |-> d, ok |-> FALSE]
    ELSE IF action = "add"
    THEN [db |-> [d EXCEPT !.categories =
                      (NextCategoryId(d.categories) :> Strip(name)) @@ @],
          ok |-> TRUE]
    ELSE IF Blank(new_name) THEN [db |-> d, ok |-> FALSE]
    ELSE LET rows == RowsNamed(d.categories, name)
         IN  [db |-> [d EXCEPT !.categories =
                          [i \in DOMAIN @ |->
                              IF i \in rows THEN Strip(new_name) ELSE @[i]]],
              ok |-> TRUE]

\* the store after the call and the returned flag; a UNIQUE clash raises
\* inside the try block and nothing is committed
ManageCategory(d, action, name, new_name) ==
    IF Blank(name) THEN [db |-> d, ok |-> FALSE]
    ELSE IF action = "add"
    THEN IF \E i \in DOMAIN d.categories : d.categories[i] = Strip(name)
         THEN [db |-> d, ok |-> FALSE]
         ELSE [db |-> [d EXCEPT !.categories =
                           (NextCategoryId(d.categories) :> Strip(name)) @@ @],
               ok |-> TRUE]
    ELSE IF Blank(new_name) THEN [db |-> d, ok |-> FALSE]
    ELSE LET rows == RowsNamed(d.categories, name)
             clash == rows # {} /\
                      (Cardinality(rows) > 1 \/
                       \E i \in DOMAIN d.categories \ rows :
                           d.categories[i] = Strip(new_name))
         IN  IF clash THEN [db |-> d, ok |-> FALSE]
             ELSE [db |-> [d EXCEPT !.categories =
                               [i \in DOMAIN @ |->
                                   IF i \in rows THEN Strip(new_name) ELSE @[i]]],
                   ok |-> TRUE]

\* str(gst_en), and float() of str(gst_p) as process_order's caller reads it back
UpdateSettings(d, gst_en, gst_p) ==
    [d EXCEPT !.settings.gst_enabled = IF gst_en THEN "True" ELSE "False",
              !.settings.gst_percent = gst_p]

---------------------------------------------------------------------------
(* AnalyticsEngine.get_financials_extended *)

\* date(timestamp): a day of the model lasts two clock seconds
Date(t) == t \div 2

\* a quotient of the report, kept as numerator and denominator
Ratio(n, d) == <<n, d>>

RECURSIVE SumTotalAmount(_, _)
SumTotalAmount(orders, ids) ==
    IF ids = {} THEN 0
    ELSE LET o == CHOOSE x \in ids : TRUE
         IN  orders[o].total_amount + SumTotalAmount(orders, ids \ {o})

RECURSIVE SumCost(_)
SumCost(items) ==
    IF items = {} THEN 0
    ELSE LET i == CHOOSE x \in items : TRUE
         IN  i.cost * i.quantity + SumCost(items \ {i})

RECURSIVE SumSalesCount(_, _)
SumSalesCount(products, pids) ==
    IF pids = {} THEN 0
    ELSE LET p == CHOOSE x \in pids : TRUE
         IN  products[p].sales_count + SumSalesCount(products, pids \ {p})

\* the range taken without its last day: date(timestamp) < end_date
FinancialsExclusiveEnd(d, start_date, end_date) ==
    LET active == {o \in DOMAIN d.orders :
                      /\ d.orders[o].status = "active"
                      /\ start_date <= Date(d.orders[o].timestamp)
                      /\ Date(d.orders[o].timestamp) < end_date}
        revenue == SumTotalAmount(d.orders, active)
        total_orders == Cardinality(active)
        total_cost == SumCost({i \in d.order_items : i.order_id \in active})
        gross_profit == revenue - total_cost
        returning == {m \in DOMAIN d.customers : d.customers[m].total_visits > 1}
        total_customers == Cardinality(DOMAIN d.customers)
    IN  [revenue |-> revenue, total_orders |-> total_orders,
         aov |-> IF total_orders > 0 THEN Ratio(revenue, total_orders) ELSE Ratio(0, 1),
         total_cost |-> total_cost, gross_profit |-> gross_profit,
         gross_margin |-> IF revenue > 0 THEN Ratio(gross_profit * 100, revenue)
                          ELSE Ratio(0, 1),
         inventory_turnover |-> SumSalesCount(d.products, DOMAIN d.products),
         retention_rate |-> IF total_customers > 0
                            THEN Ratio(Cardinality(returning) * 100, total_customers)
                            ELSE Ratio(0, 1)]

\* the cost query joins the items to every order of the range, cancelled or not
FinancialsCostOfAllOrders(d, start_date, end_date) ==
    LET in_range == {o \in DOMAIN d.orders :
                        /\ start_date <= Date(d.orders[o].timestamp)
                        /\ Date(d.orders[o].timestamp) <= end_date}
        active == {o \in in_range : d.orders[o].status = "active"}
        revenue == SumTotalAmount(d.orders, active)
        total_orders == Cardinality(active)
        total_cost == SumCost({i \in d.order_items : i.order_id \in in_range})
        gross_profit == revenue - total_cost
        returning == {m \in DOMAIN d.customers : d.customers[m].total_visits > 1}
        total_customers == Cardinality(DOMAIN d.customers)
    IN  [revenue |-> revenue, total_orders |-> total_orders,
         aov |-> IF total_orders > 0 THEN Ratio(revenue, total_orders) ELSE Ratio(0, 1),
         total_cost |-> total_cost, gross_profit |-> gross_profit,
         gross_margin |-> IF revenue > 0 THEN Ratio(gross_profit * 100, revenue)
                          ELSE Ratio(0, 1),
         inventory_turnover |-> SumSalesCount(d.products, DOMAIN d.products),
         retention_rate |-> IF total_customers > 0
                            THEN Ratio(Cardinality(returning) * 100, total_customers)
                            ELSE Ratio(0, 1)]

\* the report over the orders with status 'active' whose date is BETWEEN
\* start_date AND end_date
Financials(d, start_date, end_date) ==
    LET active == {o \in DOMAIN d.orders :
                      /\ d.orders[o].status = "active"
                      /\ start_date <= Date(d.orders[o].timestamp)
                      /\ Date(d.orders[o].timestamp) <= end_date}
        revenue == SumTotalAmount(d.orders, active)
        total_orders == Cardinality(active)
        total_cost == SumCost({i \in d.order_items : i.order_id \in active})
        gross_profit == revenue - total_cost
        returning == {m \in DOMAIN d.customers : d.customers[m].total_visits > 1}
        total_customers == Cardinality(DOMAIN d.customers)
    IN  [revenue |-> revenue, total_orders |-> total_orders,
         aov |-> IF total_orders > 0 THEN Ratio(revenue, total_orders) ELSE Ratio(0, 1),
         total_cost |-> total_cost, gross_profit |-> gross_profit,
         gross_margin |-> IF revenue > 0 THEN Ratio(gross_profit * 100, revenue)
                          ELSE Ratio(0, 1),
         inventory_turnover |-> SumSalesCount(d.products, DOMAIN d.products),
         retention_rate |-> IF total_customers > 0
                            THEN Ratio(Cardinality(returning) * 100, total_customers)
                            ELSE Ratio(0, 1)]

---------------------------------------------------------------------------
(* SearchAlgorithms.linear_search, SearchAlgorithms.binary_search *)

\* a string is a sequence of character codes: "B" = 66, "a" = 97, "b" = 98
Chars == {66, 97, 98}

\* str.lower() on one character
LowerChar(ch) == IF 65 <= ch /\ ch <= 90 THEN ch + 32 ELSE ch

\* str.lower()
Lower(str) == [i \in 1 .. Len(str) |-> LowerChar(str[i])]

\* str.startswith(prefix)
StartsWith(str, prefix) ==
    /\ Len(prefix) <= Len(str)
    /\ \A i \in 1 .. Len(prefix) : str[i] = prefix[i]

\* str < other: the order of the first differing character, or the shorter first
RECURSIVE StrLess(_, _)
StrLess(str, other) ==
    IF other = <<>> THEN FALSE
    ELSE IF str = <<>> THEN TRUE
    ELSE IF Head(str) # Head(other) THEN Head(str) < Head(other)
    ELSE StrLess(Tail(str), Tail(other))

\* the test of both searches: str(item[key]).lower().startswith(str(value).lower())
Matches(item, value) == StartsWith(Lower(item.name), Lower(value))

RECURSIVE LinearSearch(_, _)
LinearSearch(data_list, value) ==
    IF data_list = <<>> THEN <<>>
    ELSE (IF Matches(Head(data_list), value) THEN <<Head(data_list)>> ELSE <<>>)
             \o LinearSearch(Tail(data_list), value)

\* one step of a stable sort: item goes behind every item not greater than it
RECURSIVE InsertSorted(_, _)
InsertSorted(sorted_data, item) ==
    IF sorted_data = <<>> THEN <<item>>
    ELSE IF StrLess(item.name, Head(sorted_data).name)
    THEN <<item>> \o sorted_data
    ELSE <<Head(sorted_data)>> \o InsertSorted(Tail(sorted_data), item)

\* sorted(data_list, key=lambda x: str(x[key])): stable, on the keys as written
RECURSIVE Sorted(_)
Sorted(data_list) ==
    IF data_list = <<>> THEN <<>>
    ELSE InsertSorted(Sorted(SubSeq(data_list, 1, Len(data_list) - 1)),
                      data_list[Len(data_list)])

\* the while loop of binary_search; positions count from 1, 0 is idx = -1
RECURSIVE FindIndex(_, _, _, _)
FindIndex(sorted_data, value, low, high) ==
    IF low > high THEN 0
    ELSE LET mid == (low + high) \div 2
             mid_val == Lower(sorted_data[mid].name)
             val == Lower(value)
         IN  IF StartsWith(mid_val, val) THEN mid
             ELSE IF StrLess(mid_val, val)
             THEN FindIndex(sorted_data, value, mid + 1, high)
             ELSE FindIndex(sorted_data, value, low, mid - 1)

\* if sorted_data[i] not in results: results.append(sorted_data[i])
AppendNew(results, item) ==
    IF \E j \in 1 .. Len(results) : results[j] = item THEN results
    ELSE Append(results, item)

RECURSIVE ScanLeft(_, _, _, _)
ScanLeft(sorted_data, value, i, results) ==
    IF i >= 1 /\ Matches(sorted_data[i], value)
    THEN ScanLeft(sorted_data, value, i - 1, AppendNew(results, sorted_data[i]))
    ELSE results

RECURSIVE ScanRight(_, _, _, _)
ScanRight(sorted_data, value, i, results) ==
    IF i <= Len(sorted_data) /\ Matches(sorted_data[i], value)
    THEN ScanRight(sorted_data, value, i + 1, AppendNew(results, sorted_data[i]))
    ELSE results

BinarySearch(data_list, value) ==
    LET sorted_data == Sorted(data_list)
        idx == FindIndex(sorted_data, value, 1, Len(sorted_data))
    IN  IF idx = 0 THEN <<>>
        ELSE ScanRight(sorted_data, value, idx + 1,
                       ScanLeft(sorted_data, value, idx, <<>>))

---------------------------------------------------------------------------
(* AnalyticsEngine: the reports of the dashboard and predict_sales *)

\* strftime('%H', timestamp): the first or the second second of the model's day
HourOf(t) == t % 2

\* strftime('%w', timestamp): the day of the week, 0 for Sunday
WeekdayOf(t) == Date(t) % 7

\* the orders with status 'active'
ActiveOrders(d) == {o \in DOMAIN d.orders : d.orders[o].status = "active"}

\* get_sales_report: one row per date of the range that has an active order,
\* in the order of the dates
RECURSIVE SalesReport(_, _, _)
SalesReport(d, start_date, end_date) ==
    IF start_date > end_date THEN <<>>
    ELSE LET on_day == {o \in ActiveOrders(d) : Date(d.orders[o].timestamp) = start_date}
             row == [date |-> start_date, sales |-> SumTotalAmount(d.orders, on_day),
                     orders |-> Cardinality(on_day)]
         IN  (IF on_day = {} THEN <<>> ELSE <<row>>)
                 \o SalesReport(d, start_date + 1, end_date)

\* get_hourly_trends: the number of active orders of every hour that has one
HourlyTrends(d) ==
    LET hours == {HourOf(d.orders[o].timestamp) : o \in ActiveOrders(d)}
    IN  [h \in hours |->
            Cardinality({o \in ActiveOrders(d) : HourOf(d.orders[o].timestamp) = h})]

\* get_daily_trends: the number of active orders of every weekday that has one
DailyTrends(d) ==
    LET days == {WeekdayOf(d.orders[o].timestamp) : o \in ActiveOrders(d)}
    IN  [w \in days |->
            Cardinality({o \in ActiveOrders(d) : WeekdayOf(d.orders[o].timestamp) = w})]

\* get_top_selling_products: the tables ORDER BY sales_count DESC LIMIT 5 can
\* return; products that sold equally come in any order
TopSellingProducts(d) ==
    LET pids == DOMAIN d.products
        n == IF Cardinality(pids) < 5 THEN Cardinality(pids) ELSE 5
    IN  {[p \in top |-> [name |-> d.products[p].name,
                          sales_count |-> d.products[p].sales_count]] :
            top \in {t \in SUBSET pids :
                        /\ Cardinality(t) = n
                        /\ \A p \in t, q \in pids \ t :
                               d.products[p].sales_count >= d.products[q].sales_count}}

\* get_category_analytics: the sales_count of the products of every category
\* name that has a product
CategoryAnalytics(d) ==
    LET joined == {p \in DOMAIN d.products :
                      d.products[p].category_id \in DOMAIN d.categories}
        names == {d.categories[d.products[p].category_id] : p \in joined}
    IN  [n \in names |->
            SumSalesCount(d.products,
                          {p \in joined : d.categories[d.products[p].category_id] = n})]

\* get_payment_patterns: count and volume of the active orders of every
\* payment_mode value that has one
PaymentPatterns(d) ==
    LET modes == {d.orders[o].payment_mode : o \in ActiveOrders(d)}
    IN  [m \in modes |->
            LET of_mode == {o \in ActiveOrders(d) : d.orders[o].payment_mode = m}
            IN  [count |-> Cardinality(of_mode),
                 volume |-> SumTotalAmount(d.orders, of_mode)]]

\* np.polyfit and np.poly1d: the least-squares polynomial of the degree
\* through the sales, evaluated at xs; its values are not computed
PolyFit(degree, sales, xs) == [degree |-> degree, through |-> sales, at |-> xs]

\* predict_sales: (None, None) for fewer than two rows, else the fitted and
\* the seven forecast points
PredictSales(df, mode) ==
    IF Len(df) < 2 THEN <<Null, Null>>
    ELSE LET X == [i \in 1 .. Len(df) |-> i - 1]
             y == [i \in 1 .. Len(df) |-> df[i].sales]
             degree == IF mode = "Linear" THEN 1 ELSE 3
             future_X == [i \in 1 .. 7 |-> Len(df) + i - 1]
         IN  << <<X, PolyFit(degree, y, X)>>, <<future_X, PolyFit(degree, y, future_X)>> >>

---------------------------------------------------------------------------
(* pos_panel: the cart of a browser session and the Complete Order button *)

\* st.radio("Payment Mode", ["Cash", "Card", "UPI"])
PaymentModes == {"Cash", "Card", "UPI"}

\* the product row copied into the cart: p, with p['qty'] = 1
CartItem(prod) ==
    [qty |-> 1, stock |-> prod.stock,
     selling_price |-> prod.selling_price, cost_price |-> prod.cost_price]

\* the "Add" button of a product card
AddButton(c, pid, prod) ==
    IF pid \in DOMAIN c
    THEN IF c[pid].qty < prod.stock THEN [c EXCEPT ![pid].qty = @ + 1] ELSE c
    ELSE (pid :> CartItem(prod)) @@ c

GstConfig(settings) ==
    [enabled |-> settings.gst_enabled = "True", percent |-> settings.gst_percent]

\* INSERT INTO customers (mobile, name): the counters take their defaults
RegisterCustomer(d, mobile) ==
    IF mobile \in DOMAIN d.customers THEN d
    ELSE [d EXCEPT !.customers =
              (mobile :> [total_spent |-> 0, total_visits |-> 0, cancelled_orders |-> 0]) @@ @]

---------------------------------------------------------------------------
(* The state machine *)

\* no backend method was called by the latest step
NoCall == [op |-> "none"]

\* no cancel_order call is in flight
NoCalls == [a \in Admins |-> [pc |-> "idle"]]

Init ==
    /\ db = SeedData("active")
    /\ cart = [s \in Sessions |-> <<>>]
    /\ now = 1
    /\ last = NoCall
    /\ calls = NoCalls

Tick ==
    /\ now < MaxClock
    /\ now' = now + 1
    /\ last' = NoCall
    /\ UNCHANGED <<db, cart, calls>>

AddToCart(s, pid) ==
    /\ db.products[pid].stock > 0
    /\ cart' = [cart EXCEPT ![s] = AddButton(@, pid, db.products[pid])]
    /\ last' = NoCall
    /\ UNCHANGED <<db, now, calls>>

SetQty(s, pid, new_qty) ==
    /\ pid \in DOMAIN cart[s]
    /\ new_qty \in 1 .. cart[s][pid].stock
    /\ new_qty # cart[s][pid].qty
    /\ cart' = [cart EXCEPT ![s][pid].qty = new_qty]
    /\ last' = NoCall
    /\ UNCHANGED <<db, now, calls>>

RemoveFromCart(s, pid) ==
    /\ pid \in DOMAIN cart[s]
    /\ cart' = [cart EXCEPT ![s] = [q \in DOMAIN @ \ {pid} |-> @[q]]]
    /\ last' = NoCall
    /\ UNCHANGED <<db, now, calls>>

\* the Complete Order button: implicit registration, process_order, and the
\* cart cleared when process_order returns
CompleteOrder(s, mobile, pay_mode, failAt) ==
    LET gst_config == GstConfig(db.settings)
        total_val == TotalSelling(cart[s], DOMAIN cart[s])
        final_total == total_val + GstAmt(total_val, gst_config)
        d1 == RegisterCustomer(db, mobile)
        r == ProcessOrder(d1, "pos1", mobile, cart[s], pay_mode, gst_config, now, failAt)
    IN  /\ DOMAIN cart[s] # {}
        /\ final_total > 0
        /\ db' = r.db
        /\ cart' = IF r.raised = "" THEN [cart EXCEPT ![s] = <<>>] ELSE cart
        /\ last' = IF r.raised = ""
                   THEN [op |-> "process_order", raised |-> "", order_id |-> r.order_id,
                         final_amt |-> r.final_amt, gst_amt |-> r.gst_amt]
                   ELSE [op |-> "process_order", raised |-> r.raised]
        /\ UNCHANGED <<now, calls>>

Restock(product_id, qty) ==
    LET r == RestockProduct(db, product_id, qty)
    IN  /\ product_id \in DOMAIN db.products => db.products[product_id].stock + qty <= MaxStock
        /\ db' = r.db
        /\ last' = [op |-> "restock_product", ok |-> r.ok]
        /\ UNCHANGED <<cart, now, calls>>

Cancel(order_id, reason, password_check, failAt) ==
    LET r == CancelOrder(db, AdminId, order_id, reason, password_check, failAt)
    IN  \* a failure can only be injected into a call that executes statements
        /\ failAt # 0 => VerifyPassword(db, AdminId, password_check) /\ Cancellable(db, order_id)
        /\ db' = r.db
        /\ last' = [op |-> "cancel_order", ok |-> r.ok, msg |-> r.msg]
        /\ UNCHANGED <<cart, now, calls>>

\* cancel_order up to the SELECT of the order's status: the call returns on a
\* wrong password and on an order that is not there or reads 'cancelled',
\* else it goes on to its UPDATE statements
CancelBegin(a, order_id, reason, password_check) ==
    /\ calls[a].pc # "selected"
    /\ IF ~VerifyPassword(db, AdminId, password_check)
       THEN /\ calls' = [calls EXCEPT ![a] =
                             [pc |-> "returned", order_id |-> order_id, ok |-> FALSE]]
            /\ last' = [op |-> "cancel_order", ok |-> FALSE, msg |-> "Invalid Password"]
       ELSE IF ~Cancellable(db, order_id)
       THEN /\ calls' = [calls EXCEPT ![a] =
                             [pc |-> "returned", order_id |-> order_id, ok |-> FALSE]]
            /\ last' = [op |-> "cancel_order", ok |-> FALSE,
                        msg |-> "Order already cancelled or not found"]
       ELSE /\ calls' = [calls EXCEPT ![a] =
                             [pc |-> "selected", order_id |-> order_id, reason |-> reason]]
            /\ last' = NoCall
    /\ UNCHANGED <<db, cart, now>>

\* the rest of cancel_order: the UPDATE of the order, the SELECT of its
\* customer and amount, the UPDATE of the customer and the commit. SQLite
\* admits one writer, so the statements of the transaction take effect together
CancelFinish(a) ==
    /\ calls[a].pc = "selected"
    /\ LET r == Transaction(db, CancelOrderWrites(db, calls[a].order_id, calls[a].reason), 0)
       IN  /\ db' = r.db
           /\ calls' = [calls EXCEPT ![a] =
                            [pc |-> "returned", order_id |-> calls[a].order_id,
                             ok |-> r.error = ""]]
           /\ last' = IF r.error = ""
                      THEN [op |-> "cancel_order", ok |-> TRUE,
                            msg |-> "Order Cancelled Successfully"]
                      ELSE [op |-> "cancel_order", ok |-> FALSE, msg |-> r.error]
    /\ UNCHANGED <<cart, now>>

Category(action, name, new_name) ==
    LET r == ManageCategory(db, action, name, new_name)
    IN  /\ db' = r.db
        /\ last' = [op |-> "manage_category", ok |-> r.ok, action |-> action,
                    name |-> name, new_name |-> new_name]
        /\ UNCHANGED <<cart, now, calls>>

SaveSettings(gst_en, gst_p) ==
    /\ db' = UpdateSettings(db, gst_en, gst_p)
    /\ last' = [op |-> "update_setting"]
    /\ UNCHANGED <<cart, now, calls>>

\* the "Predictions" tab: (X, y_fit), (fut_X, fut_y) = predict_sales(...) when
\* the sales report has a row; unpacking None raises TypeError
ForecastTab(d, start_d, end_d, reg_mode) ==
    LET sales_df == SalesReport(d, start_d, end_d)
        r == PredictSales(sales_df, IF reg_mode = "Linear" THEN "Linear" ELSE "Optimized")
    IN  IF sales_df = <<>> THEN [rows |-> 0, raised |-> ""]
        ELSE IF r[1] = Null \/ r[2] = Null
        THEN [rows |-> Len(sales_df), raised |-> "TypeError"]
        ELSE [rows |-> Len(sales_df), raised |-> "", fit |-> r[1], forecast |-> r[2]]

\* a page whose top-products query also writes: it resets the sales counters
AnalyticsPageResetsSales(start_d, end_d, reg_mode) ==
    /\ \E top \in TopSellingProducts(db) :
          last' = [op |-> "analytics", start_d |-> start_d, end_d |-> end_d,
                   financials |-> Financials(db, start_d, end_d),
                   hourly |-> HourlyTrends(db), daily |-> DailyTrends(db),
                   top_products |-> top, categories |-> CategoryAnalytics(db),
                   payments |-> PaymentPatterns(db),
                   forecast |-> ForecastTab(db, start_d, end_d, reg_mode)]
    /\ db' = [db EXCEPT !.products = [p \in DOMAIN @ |-> [@[p] EXCEPT !.sales_count = 0]]]
    /\ UNCHANGED <<cart, now, calls>>

\* one run of the admin's Analytics page: every report is queried, then the
\* forecast is drawn; the queries are SELECT statements
AnalyticsPage(start_d, end_d, reg_mode) ==
    /\ \E top \in TopSellingProducts(db) :
          last' = [op |-> "analytics", start_d |-> start_d, end_d |-> end_d,
                   financials |-> Financials(db, start_d, end_d),
                   hourly |-> HourlyTrends(db), daily |-> DailyTrends(db),
                   top_products |-> top, categories |-> CategoryAnalytics(db),
                   payments |-> PaymentPatterns(db),
                   forecast |-> ForecastTab(db, start_d, end_d, reg_mode)]
    /\ UNCHANGED <<db, cart, now, calls>>

---------------------------------------------------------------------------
(* Spec: the till.  One POS session fills its cart and completes orders,   *)
(* for a seeded and for a new customer, within one clock second and with   *)
(* storage failures, while the admin restocks.                             *)

SeededMobile == "9876543201"

Next ==
    \/ \E pid \in Pids : AddToCart("tab1", pid)
    \/ \E pid \in Pids, q \in 1 .. MaxStock : SetQty("tab1", pid, q)
    \/ \E pid \in Pids : RemoveFromCart("tab1", pid)
    \/ \E m \in Mobiles, f \in 0 .. MaxFailAt : CompleteOrder("tab1", m, "Cash", f)
    \/ \E pid \in Pids : Restock(pid, 1)

Spec == Init /\ [][Next]_vars

---------------------------------------------------------------------------
(* SpecOrders: the admin cancels, with a right or a wrong password and     *)
(* with storage failures, the seed order and the orders one POS session    *)
(* completes, as the clock runs, for a seeded and for a new customer       *)

\* the order ids the admin types: the seed order, the ids of the clock
\* range, and an id no order has
TypedOrderIds == {SeedOrderId} \cup {OrderId(t) : t \in 0 .. MaxClock}

InitAll ==
    /\ db \in {SeedData("active"), SeedData("cancelled")}
    /\ cart = [s \in Sessions |-> <<>>]
    /\ now = 1
    /\ last = NoCall
    /\ calls = NoCalls

NextOrders ==
    \/ Tick
    \/ \E pid \in Pids : AddToCart("tab1", pid)
    \/ \E m \in Mobiles : CompleteOrder("tab1", m, "Cash", 0)
    \/ \E o \in TypedOrderIds, rs \in Reasons, pw \in Passwords, f \in 0 .. MaxFailAt :
           Cancel(o, rs, pw, f)

SpecOrders == InitAll /\ [][NextOrders]_vars

---------------------------------------------------------------------------
(* SpecLedger: the orders of SpecOrders, from a store without orders as    *)
(* well as from the seeded ones                                            *)

InitLedger ==
    /\ db \in {EmptyStore, SeedData("active"), SeedData("cancelled")}
    /\ cart = [s \in Sessions |-> <<>>]
    /\ now = 1
    /\ last = NoCall
    /\ calls = NoCalls

SpecLedger == InitLedger /\ [][NextOrders]_vars

---------------------------------------------------------------------------
(* SpecSessions: two POS sessions, each with its own cart, selling the same *)
(* product to a seeded customer while the clock runs and the admin restocks *)
(* and cancels                                                              *)

NextSessions ==
    \/ Tick
    \/ \E s \in Sessions, pid \in {1} : AddToCart(s, pid)
    \/ \E s \in Sessions, pid \in {1}, q \in 1 .. MaxStock : SetQty(s, pid, q)
    \/ \E s \in Sessions, pid \in {1} : RemoveFromCart(s, pid)
    \/ \E s \in Sessions : CompleteOrder(s, SeededMobile, "UPI", 0)
    \/ \E pid \in {1} : Restock(pid, 1)
    \/ \E o \in {SeedOrderId} \cup {OrderId(t) : t \in 1 .. MaxClock} :
           Cancel(o, "damaged", "Admin@123", 0)

SpecSessions == Init /\ [][NextSessions]_vars

---------------------------------------------------------------------------
(* SpecAll: every operation of the admin and of one POS session, within   *)
(* one clock second, over a store seeded with an active or with a         *)
(* cancelled order                                                         *)

\* the category names the admin types: none, or one new to the store
TypedNames == [text : {"", "Toys"}, padded : {FALSE}]

NextAll ==
    \/ \E pid \in {2} : AddToCart("tab1", pid)
    \/ \E pid \in {2}, q \in 1 .. MaxStock : SetQty("tab1", pid, q)
    \/ \E pid \in {2} : RemoveFromCart("tab1", pid)
    \/ \E pm \in {"Card"} : CompleteOrder("tab1", SeededMobile, pm, 0)
    \/ \E pid \in {0, 2}, q \in RestockQtys : Restock(pid, q)
    \/ \E o \in TypedOrderIds, pw \in Passwords : Cancel(o, "damaged", pw, 0)
    \/ \E a \in {"add", "rename"}, n \in TypedNames, nn \in TypedNames :
           Category(a, n, nn)
    \/ \E en \in BOOLEAN, pc \in GstPercents : SaveSettings(en, pc)

SpecAll == InitAll /\ [][NextAll]_vars

---------------------------------------------------------------------------
(* SpecStock: every operation of SpecAll, from a store without orders as   *)
(* well as from the seeded ones                                            *)

SpecStock == InitLedger /\ [][NextAll]_vars

---------------------------------------------------------------------------
(* SpecTax: one POS session completes orders of one and two lines, for a   *)
(* seeded and for a new customer, while the admin restocks product 1 and   *)
(* saves the GST switch and percentage                                     *)

\* the GST percentages the admin saves
TypedPercents == {5, 18}

NextTax ==
    \/ \E pid \in Pids : AddToCart("tab1", pid)
    \/ \E m \in Mobiles : CompleteOrder("tab1", m, "Cash", 0)
    \/ \E pid \in {1} : Restock(pid, 1)
    \/ \E en \in BOOLEAN, pc \in TypedPercents : SaveSettings(en, pc)

SpecTax == Init /\ [][NextTax]_vars

---------------------------------------------------------------------------
(* SpecSearch: the product grid searches a list of products by name, with  *)
(* the linear and with the binary search                                   *)

\* the names and the queries: 1..MaxNameLen characters
Names == UNION {[1 .. n -> Chars] : n \in 1 .. MaxNameLen}

\* the lists of products: the id of an item is its position in the list
DataLists ==
    UNION {{[i \in 1 .. n |-> [id |-> i, name |-> names[i]]] : names \in [1 .. n -> Names]} :
              n \in 0 .. MaxListLen}

\* the page is drawn with a list of products and a typed query
InitSearch ==
    /\ db = SeedData("active")
    /\ cart = [s \in Sessions |-> <<>>]
    /\ now = 1
    /\ last \in [op : {"search"}, data_list : DataLists, value : Names,
                  linear : {Null}, binary : {Null}]
    /\ calls = NoCalls

SearchLinear ==
    /\ last.op = "search" /\ last.linear = Null
    /\ last' = [last EXCEPT !.linear = Some(LinearSearch(last.data_list, last.value))]
    /\ UNCHANGED <<db, cart, now, calls>>

SearchBinary ==
    /\ last.op = "search" /\ last.binary = Null
    /\ last' = [last EXCEPT !.binary = Some(BinarySearch(last.data_list, last.value))]
    /\ UNCHANGED <<db, cart, now, calls>>

NextSearch == SearchLinear \/ SearchBinary

SpecSearch == InitSearch /\ [][NextSearch]_vars

---------------------------------------------------------------------------
(* SpecEngine: POSOperator.process_order called as a method of the backend, *)
(* by a caller other than the billing screen, with the cart and the mobile *)
(* number the caller chooses, as the clock runs and the admin cancels      *)

\* a product id the catalog does not have
UnknownPid == 3

\* the line a caller makes up for a product the catalog does not have
UnlistedItem == [qty |-> 1, stock |-> 1, selling_price |-> 1000, cost_price |-> 500]

\* the carts of a caller: empty, or one unit of product 1, of the unknown
\* product, or of both
EngineCarts(d) ==
    LET item(p) == IF p \in DOMAIN d.products THEN CartItem(d.products[p])
                   ELSE UnlistedItem
    IN  {[p \in pids |-> item(p)] : pids \in SUBSET {1, UnknownPid}}

\* one call of process_order: no registration before it, no cart cleared after
ProcessOrderCall(customer_mobile, c, payment_mode) ==
    LET r == ProcessOrder(db, "pos1", customer_mobile, c, payment_mode,
                          GstConfig(db.settings), now, 0)
    IN  /\ db' = r.db
        /\ last' = IF r.raised = ""
                   THEN [op |-> "process_order", raised |-> "", order_id |-> r.order_id,
                         final_amt |-> r.final_amt, gst_amt |-> r.gst_amt]
                   ELSE [op |-> "process_order", raised |-> r.raised]
        /\ UNCHANGED <<cart, now, calls>>

\* the reason handed to cancel_order: any string, the empty one included
ReasonArgs == {"", "damaged"}

NextEngine ==
    \/ Tick
    \/ \E m \in Mobiles, c \in EngineCarts(db) : ProcessOrderCall(m, c, "Cash")
    \/ \E o \in TypedOrderIds, rs \in ReasonArgs : Cancel(o, rs, "Admin@123", 0)

SpecEngine == Init /\ [][NextEngine]_vars

---------------------------------------------------------------------------
(* SpecCategories: the admin adds and renames categories, typing blank,   *)
(* stored and new names, with and without surrounding blanks              *)

CategoryTexts == {"", "Snacks", "Stationery", "Toys"}

CategoryNames == [text : CategoryTexts, padded : BOOLEAN]

NextCategories ==
    \E a \in {"add", "rename"}, n \in CategoryNames, nn \in CategoryNames :
        Category(a, n, nn)

SpecCategories == InitAll /\ [][NextCategories]_vars

---------------------------------------------------------------------------
(* SpecConcurrent: two admin browser sessions cancel orders at the same   *)
(* time, each call on a connection of its own, while the till sells       *)

NextConcurrent ==
    \/ Tick
    \/ AddToCart("tab1", 1)
    \/ CompleteOrder("tab1", SeededMobile, "Cash", 0)
    \/ \E a \in Admins, o \in TypedOrderIds, pw \in Passwords :
           CancelBegin(a, o, "damaged", pw)
    \/ \E a \in Admins : CancelFinish(a)

SpecConcurrent == Init /\ [][NextConcurrent]_vars

---------------------------------------------------------------------------
(* SpecAnalytics: the admin opens the Analytics page for any From and To   *)
(* date while one POS session completes orders paid in cash or by UPI, the *)
(* clock runs and the admin cancels                                        *)

RegModes == {"Linear", "Optimized (Smoothed)"}

NextAnalytics ==
    \/ Tick
    \/ AddToCart("tab1", 1)
    \/ \E pm \in {"Cash", "UPI"} : CompleteOrder("tab1", SeededMobile, pm, 0)
    \/ \E o \in TypedOrderIds : Cancel(o, "damaged", "Admin@123", 0)
    \/ \E a \in 0 .. Date(MaxClock), b \in 0 .. Date(MaxClock), rm \in RegModes :
           AnalyticsPage(a, b, rm)

SpecAnalytics == InitAll /\ [][NextAnalytics]_vars

---------------------------------------------------------------------------
(* Claims *)

\* the session s committed its cart in this step: process_order returned
Committed(s) ==
    /\ last'.op = "process_order" /\ last'.raised = ""
    /\ DOMAIN cart[s] # {} /\ DOMAIN cart'[s] = {}

\* every line of cart c asks for between 1 and the current stock of its product
ValidCart(c, d) ==
    \A p \in DOMAIN c : 1 <= c[p].qty /\ c[p].qty <= d.products[p].stock

\* C1: a process_order that returns, called with a cart whose every line asks
\* for between 1 and the product's current stock, lowers the stock of each
\* cart product by exactly the line's quantity, raises its sales_count by the
\* same quantity, and leaves every other product's row unchanged.
C1_CommitMovesStockToSales ==
    [][last'.op = "process_order" => \A s \in Sessions :
          (Committed(s) /\ ValidCart(cart[s], db)) =>
              \A p \in Pids :
                  IF p \in DOMAIN cart[s]
                  THEN /\ db'.products[p].stock = db.products[p].stock - cart[s][p].qty
                       /\ db'.products[p].sales_count =
                              db.products[p].sales_count + cart[s][p].qty
                  ELSE db'.products[p] = db.products[p]]_vars

\* a two-line order has been committed, one product sold twice
C1_Witness ==
    /\ last.op = "process_order" /\ last.raised = ""
    /\ \E o \in DOMAIN db.orders :
          /\ o = last.order_id
          /\ Cardinality({i \in db.order_items : i.order_id = o}) = 2
          /\ \E i \in db.order_items : i.order_id = o /\ i.quantity = 2

\* the cart c asks, on some line, for more than the current stock
Overstock(c, d) ==
    \E p \in DOMAIN c : c[p].qty > d.products[p].stock

\* C2: a Complete Order whose cart asks, on some line, for more than the
\* product's current stock is rejected by process_order, and no order, order
\* item, product row or customer row changes.
C2_OverstockCartRejected ==
    [][last'.op = "process_order" => \A s \in Sessions :
          (Overstock(cart[s], db) /\ CompleteOrder(s, SeededMobile, "UPI", 0)) =>
              /\ last'.raised # ""
              /\ db'.orders = db.orders
              /\ db'.order_items = db.order_items
              /\ db'.products = db.products
              /\ db'.customers = db.customers]_vars

\* C3: the stock of every product is >= 0.
C3_StockNeverNegative ==
    \A p \in Pids : db.products[p].stock >= 0

\* every order id a call can name
AllOrderIds == {SeedOrderId} \cup {OrderId(t) : t \in 0 .. MaxClock}

\* what process_order does not write: users, categories, settings
SameConfiguration ==
    /\ db'.users = db.users
    /\ db'.categories = db.categories
    /\ db'.settings = db.settings

C5_CancelReversesOwner ==
    [][last'.op = "cancel_order" => \A o \in AllOrderIds, rs \in Reasons :
          (/\ db.users[AdminId].password_hash = Sha256("Admin@123")
           /\ o \in DOMAIN db.orders
           /\ db.orders[o].status = "active"
           /\ Cancel(o, rs, "Admin@123", 0)) =>
              LET ord == db.orders[o]
                  m == ord.customer_mobile
              IN  /\ last'.ok
                  /\ DOMAIN db'.orders = DOMAIN db.orders
                  /\ db'.orders[o] = [ord EXCEPT !.status = "cancelled",
                                                 !.cancellation_reason = Some(rs)]
                  /\ \A o2 \in DOMAIN db.orders \ {o} : db'.orders[o2] = db.orders[o2]
                  /\ DOMAIN db'.customers = DOMAIN db.customers
                  /\ db'.customers[m] =
                         [total_spent |-> db.customers[m].total_spent - ord.total_amount,
                          total_visits |-> db.customers[m].total_visits - 1,
                          cancelled_orders |-> db.customers[m].cancelled_orders + 1]
                  /\ \A m2 \in DOMAIN db.customers \ {m} :
                         db'.customers[m2] = db.customers[m2]]_vars

\* an order committed at the till was cancelled while another customer's
\* order is on file
C5_Witness ==
    /\ last.op = "cancel_order" /\ last.ok
    /\ OrderId(1) \in DOMAIN db.orders
    /\ db.orders[OrderId(1)].status = "cancelled"
    /\ db.orders[SeedOrderId].status = "active"
    /\ db.orders[SeedOrderId].customer_mobile # db.orders[OrderId(1)].customer_mobile

\* C6: cancel_order with the admin's password on an order that is already
\* cancelled, or on an id no order has, returns failure with a message and
\* changes nothing in the store.
C6_RepeatedCancelRejected ==
    [][last'.op = "cancel_order" =>
       \A o \in AllOrderIds, rs \in Reasons, f \in 0 .. MaxFailAt :
          (/\ db.users[AdminId].password_hash = Sha256("Admin@123")
           /\ (o \notin DOMAIN db.orders \/ db.orders[o].status = "cancelled")
           /\ Cancel(o, rs, "Admin@123", f)) =>
              /\ ~last'.ok
              /\ last'.msg # ""
              /\ db' = db]_vars

\* a cancel was rejected while an order cancelled by cancel_order is on file
C6_Witness ==
    /\ last.op = "cancel_order" /\ ~last.ok
    /\ last.msg = "Order already cancelled or not found"
    /\ \E o \in DOMAIN db.orders :
          /\ db.orders[o].status = "cancelled"
          /\ db.orders[o].cancellation_reason \in {Some(rs) : rs \in Reasons}

\* C7: cancel_order with a credential whose hash is not the admin's stored
\* hash fails, with a message that no cancel of a missing or cancelled order
\* returns, and changes nothing in the store, whatever order id is given.
C7_WrongPasswordUnauthorized ==
    [][last'.op = "cancel_order" =>
       \A o \in AllOrderIds, rs \in Reasons, pw \in Passwords, f \in 0 .. MaxFailAt :
          (/\ db.users[AdminId].password_hash # Sha256(pw)
           /\ Cancel(o, rs, pw, f)) =>
              /\ ~last'.ok
              /\ last'.msg = "Invalid Password"
              /\ last'.msg # "Order already cancelled or not found"
              /\ db' = db]_vars

\* a wrong password was refused for a store holding an active and a cancelled order
C7_Witness ==
    /\ last.op = "cancel_order" /\ last.msg = "Invalid Password"
    /\ \E o \in DOMAIN db.orders : db.orders[o].status = "active"
    /\ \E o \in DOMAIN db.orders : db.orders[o].status = "cancelled"

\* C8: a cancel_order that succeeds leaves the products table as it was:
\* nothing returns to stock and nothing leaves sales_count.
C8_CancelKeepsProducts ==
    [][(last'.op = "cancel_order" /\ last'.ok) => db'.products = db.products]_vars

\* the order of this second, which sold stock, was cancelled
C8_Witness ==
    /\ last.op = "cancel_order" /\ last.ok
    /\ OrderId(1) \in DOMAIN db.orders
    /\ db.orders[OrderId(1)].status = "cancelled"
    /\ \E i \in db.order_items :
          i.order_id = OrderId(1) /\ db.products[i.product_id].sales_count >= i.quantity

\* C9: an order whose status is cancelled keeps that status and its recorded
\* cancellation reason through every step.
C9_CancelledIsTerminal ==
    [][\A o \in DOMAIN db.orders :
          db.orders[o].status = "cancelled" =>
              /\ o \in DOMAIN db'.orders
              /\ db'.orders[o].status = "cancelled"
              /\ db'.orders[o].cancellation_reason = db.orders[o].cancellation_reason]_vars

\* the order committed at the till was cancelled, and a later Complete
\* Order generated its id again
C9_Witness ==
    /\ OrderId(1) \in DOMAIN db.orders
    /\ db.orders[OrderId(1)].status = "cancelled"
    /\ last.op = "process_order" /\ last.raised = "IntegrityError"

\* C10: no process_order call is rejected because the order id it generates
\* is the id of an order already persisted.
C10_OrderIdNeverClashes ==
    ~(last.op = "process_order" /\ last.raised = "IntegrityError")

\* the price of line p of cart c: the snapshotted unit price times the quantity
LineTotal(c, p) ==
    IF p \in DOMAIN c THEN c[p].selling_price * c[p].qty ELSE 0

\* C11: a process_order that returns gives tax = subtotal * percent / 100
\* when GST is enabled and 0 when it is disabled, and total = subtotal + tax,
\* the subtotal being the sum over the cart lines of snapshotted unit price
\* times quantity; the persisted order holds the returned total and tax.
C11_TaxAndTotal ==
    [][(last'.op = "process_order" /\ last'.raised = "") => \A s \in Sessions :
          Committed(s) =>
              LET subtotal == LineTotal(cart[s], 1) + LineTotal(cart[s], 2)
                  enabled == db.settings.gst_enabled = "True"
              IN  /\ enabled => last'.gst_amt * 100 = subtotal * db.settings.gst_percent
                  /\ ~enabled => last'.gst_amt = 0
                  /\ last'.final_amt = subtotal + last'.gst_amt
                  /\ db'.orders[last'.order_id].total_amount = last'.final_amt
                  /\ db'.orders[last'.order_id].gst_amount = last'.gst_amt]_vars

\* the order 2 x 50 and 1 x 30 at 18% was committed: subtotal 130, tax 23.4,
\* total 153.4
C11_Witness ==
    /\ last.op = "process_order" /\ last.raised = ""
    /\ last.gst_amt = 2340 /\ last.final_amt = 15340
    /\ db.orders[last.order_id].total_amount = 15340

\* the counters of a customer who has no row yet
NoCounters == [total_spent |-> 0, total_visits |-> 0, cancelled_orders |-> 0]

\* C12: a process_order that returns for customer m adds 1 to m's
\* total_visits and the returned total to m's total_spent, and leaves m's
\* cancelled_orders and every other customer's counters unchanged.
C12_CommitCountsVisitAndSpend ==
    [][(last'.op = "process_order" /\ last'.raised = "") => \A m \in Mobiles :
          CompleteOrder("tab1", m, "Cash", 0) =>
              LET before == IF m \in DOMAIN db.customers THEN db.customers[m]
                            ELSE NoCounters
              IN  /\ db'.customers[m].total_visits = before.total_visits + 1
                  /\ db'.customers[m].total_spent = before.total_spent + last'.final_amt
                  /\ db'.customers[m].cancelled_orders = before.cancelled_orders
                  /\ \A m2 \in DOMAIN db.customers \ {m} :
                         m2 \in DOMAIN db'.customers
                         /\ db'.customers[m2] = db.customers[m2]]_vars

\* a new customer's first order was committed with tax, next to a customer
\* who has spent before
C12_Witness ==
    /\ last.op = "process_order" /\ last.raised = ""
    /\ last.gst_amt > 0
    /\ "9876543202" \in DOMAIN db.customers
    /\ db.customers["9876543202"].total_visits = 1
    /\ db.customers["9876543202"].total_spent = last.final_amt
    /\ db.customers["9876543201"].total_spent > 0

\* the date ranges of a report: every From <= To over the days of the clock
DateRanges ==
    {r \in (0 .. Date(MaxClock)) \X (0 .. Date(MaxClock)) : r[1] <= r[2]}

\* the orders of store d dated within range r
OrdersDated(d, r) ==
    {o \in DOMAIN d.orders :
        r[1] <= Date(d.orders[o].timestamp) /\ Date(d.orders[o].timestamp) <= r[2]}

\* the cost of the lines of order o: unit cost times quantity, line by line
OrderCost(d, o) ==
    LET LineCost(p) ==
            IF \E i \in d.order_items : i.order_id = o /\ i.product_id = p
            THEN LET i == CHOOSE i \in d.order_items : i.order_id = o /\ i.product_id = p
                 IN  i.cost * i.quantity
            ELSE 0
    IN  LineCost(1) + LineCost(2)

\* over a range whose orders are all cancelled the report shows no revenue,
\* no order and no margin
CancelledRangesReportNothing(d) ==
    \A r \in DateRanges :
        (\A o \in OrdersDated(d, r) : d.orders[o].status = "cancelled") =>
            LET f == Financials(d, r[1], r[2])
            IN  f.revenue = 0 /\ f.total_orders = 0 /\ f.gross_margin[1] = 0

\* C13: the financial report over a date range whose orders are all
\* cancelled shows revenue 0, order count 0 and margin 0; and a cancel_order
\* that succeeds takes exactly the order's total_amount from the revenue, one
\* from the order count and the cost of the order's lines from the total
\* cost of every range that contains the order's date.
C13_CancelledOrdersLeaveReports ==
    /\ CancelledRangesReportNothing(db)
    /\ [][/\ CancelledRangesReportNothing(db')
          /\ (last'.op = "cancel_order" /\ last'.ok) =>
                \A o \in DOMAIN db.orders :
                    (db.orders[o].status = "active" /\ db'.orders[o].status = "cancelled") =>
                        \A r \in DateRanges : o \in OrdersDated(db, r) =>
                            LET f == Financials(db, r[1], r[2])
                                g == Financials(db', r[1], r[2])
                            IN  /\ g.revenue = f.revenue - db.orders[o].total_amount
                                /\ g.total_orders = f.total_orders - 1
                                /\ g.total_cost = f.total_cost - OrderCost(db, o)]_vars

\* the seed order and an order committed at the till are both cancelled, the
\* latter by cancel_order, and the report over all days shows no revenue
C13_Witness ==
    /\ last.op = "cancel_order" /\ last.ok
    /\ Cardinality(DOMAIN db.orders) >= 2
    /\ \A o \in DOMAIN db.orders : db.orders[o].status = "cancelled"
    /\ Financials(db, 0, Date(MaxClock)).revenue = 0
    /\ Financials(db, 0, Date(MaxClock)).inventory_turnover > 0

\* the items of a sequence
Items(results) == {results[i] : i \in 1 .. Len(results)}

\* both searches have run on the list and the query of the page
Searched == last.op = "search" /\ last.linear # Null /\ last.binary # Null

\* C14: on the same list and query, linear_search and binary_search return
\* the same set of items: the items whose name, case-insensitively, starts
\* with the query, and no other (the empty sequence when none matches).
C14_SearchesAgree ==
    Searched =>
        LET expected == {last.data_list[i] : i \in
                            {j \in 1 .. Len(last.data_list) :
                                StartsWith(Lower(last.data_list[j].name), Lower(last.value))}}
        IN  /\ Items(last.linear[1]) = expected
            /\ Items(last.binary[1]) = expected

\* C15: the names of the sequence binary_search returns are in
\* non-decreasing order of the sort applied to the list.
C15_BinaryResultsSorted ==
    (last.op = "search" /\ last.binary # Null) =>
        LET results == last.binary[1]
        IN  \A i \in 1 .. Len(results) - 1 :
                ~StrLess(results[i + 1].name, results[i].name)

\* the product ids the restock is called with: the catalog's and one it lacks
RestockIds == {0} \cup Pids

\* C16: restock_product with a quantity > 0 on a product of the catalog
\* returns success, raises that product's stock by exactly the quantity and
\* leaves its sales_count, every other product and every other table as
\* they were.
C16_RestockAddsQuantity ==
    [][last'.op = "restock_product" => \A pid \in Pids, q \in 1 .. MaxStock :
          (pid \in DOMAIN db.products /\ Restock(pid, q)) =>
              /\ last'.ok
              /\ db'.products[pid] = [db.products[pid] EXCEPT !.stock = @ + q]
              /\ \A p2 \in DOMAIN db.products \ {pid} : db'.products[p2] = db.products[p2]
              /\ db' = [db EXCEPT !.products = db'.products]]_vars

\* a product that has sold is back on the shelf: more units in stock and sold
\* than the seed put there
C16_Witness ==
    /\ last.op = "restock_product" /\ last.ok
    /\ db.products[2].sales_count > 0
    /\ db.products[2].stock + db.products[2].sales_count > SeedProducts[2].stock

\* C17: restock_product with a quantity <= 0 returns failure and changes no
\* product's stock (nor anything else in the store).
C17_RestockRejectsNonPositive ==
    [][last'.op = "restock_product" => \A pid \in RestockIds, q \in RestockQtys :
          (q <= 0 /\ Restock(pid, q)) => (~last'.ok /\ db' = db)]_vars

\* a restock was refused
C17_Witness ==
    last.op = "restock_product" /\ ~last.ok

\* C18: restock_product with a product id the catalog does not have returns
\* failure and changes nothing in the store.
C18_RestockRejectsUnknownProduct ==
    [][last'.op = "restock_product" => \A pid \in RestockIds, q \in RestockQtys :
          (pid \notin DOMAIN db.products /\ Restock(pid, q)) =>
              (~last'.ok /\ db' = db)]_vars

\* C19: process_order called with an empty cart is rejected: it raises, and
\* no order row is created and no customer counter changes.
C19_EmptyCartRejected ==
    [][last'.op = "process_order" => \A m \in Mobiles :
          ProcessOrderCall(m, <<>>, "Cash") =>
              /\ last'.raised # ""
              /\ db'.orders = db.orders
              /\ db'.customers = db.customers]_vars

\* every order names a customer of the customers table and every order item
\* names a product of the catalog
ReferencesExist(d) ==
    /\ \A o \in DOMAIN d.orders : d.orders[o].customer_mobile \in DOMAIN d.customers
    /\ \A i \in d.order_items : i.product_id \in DOMAIN d.products

\* C20: process_order called with a mobile number that is no customer's, or
\* with a cart line for a product id the catalog does not have, is rejected
\* and changes nothing; so every persisted order names an existing customer
\* and every order item names an existing product.
C20_UnknownReferencesRejected ==
    /\ ReferencesExist(db)
    /\ [][/\ ReferencesExist(db')
          /\ last'.op = "process_order" => \A m \in Mobiles, c \in EngineCarts(db) :
                ((m \notin DOMAIN db.customers \/ \E p \in DOMAIN c : p \notin DOMAIN db.products)
                 /\ ProcessOrderCall(m, c, "Cash")) =>
                    (last'.raised # "" /\ db' = db)]_vars

\* C21: the forecast on a sales report of fewer than 2 rows gives the
\* 'insufficient data' result and raises nothing, along the Analytics page
\* that asks for it whenever the report has a row.
C21_ShortSeriesNeverRaises ==
    (last.op = "analytics" /\ last.forecast.rows < 2) => last.forecast.raised = ""

\* C22: no query of the Analytics page (financial summary, sales report,
\* hourly and daily trend, top products, category and payment breakdown)
\* changes the store: products, customers, orders, order items, categories
\* and settings are the same before and after.
C22_AnalyticsOnlyReads ==
    [][last'.op = "analytics" => db' = db]_vars

\* the page has reported on a store with revenue, sales and a cancelled order
C22_Witness ==
    /\ last.op = "analytics"
    /\ last.financials.revenue > 0
    /\ last.financials.inventory_turnover > 0
    /\ \E o \in DOMAIN db.orders : db.orders[o].status = "cancelled"
    /\ \E o \in DOMAIN db.orders : o[1] = "INV"

\* the sum of f over the set S
RECURSIVE SumOf(_, _)
SumOf(f, S) ==
    IF S = {} THEN 0
    ELSE LET x == CHOOSE x \in S : TRUE
         IN  f[x] + SumOf(f, S \ {x})

\* the greatest common divisor of two naturals
RECURSIVE Gcd(_, _)
Gcd(a, b) == IF b = 0 THEN a ELSE Gcd(b, a % b)

\* a quotient in lowest terms
Lowest(n, d) == LET g == Gcd(IF n < 0 THEN 0 - n ELSE n, d) IN <<n \div g, d \div g>>

\* the reported quotient q is the number n / d
SameQuotient(q, n, d) == q[2] > 0 /\ d > 0 /\ Lowest(q[1], q[2]) = Lowest(n, d)

\* the reported quotient q is 0
IsZero(q) == q[2] > 0 /\ q[1] = 0

\* the active orders of the store dated within the range the page asked for
ActiveInRange == {o \in OrdersDated(db, <<last.start_d, last.end_d>>) : db.orders[o].status = "active"}

\* C23: over the active orders dated within the inclusive range, the
\* financial summary returns revenue = sum of total_amount, total_cost = sum
\* of unit cost x quantity of their lines, gross_profit = revenue - total_cost,
\* margin = 100 x gross_profit / revenue (0 when revenue is 0) and average
\* order value = revenue / order count (0 when there is no order).
C23_FinancialSummary ==
    last.op = "analytics" =>
        LET f == last.financials
            revenue == SumOf([o \in ActiveInRange |-> db.orders[o].total_amount], ActiveInRange)
            cost == SumOf([o \in ActiveInRange |-> OrderCost(db, o)], ActiveInRange)
            order_count == Cardinality(ActiveInRange)
        IN  /\ f.revenue = revenue
            /\ f.total_orders = order_count
            /\ f.total_cost = cost
            /\ f.gross_profit = revenue - cost
            /\ IF revenue = 0 THEN IsZero(f.gross_margin)
               ELSE SameQuotient(f.gross_margin, 100 * (revenue - cost), revenue)
            /\ IF order_count = 0 THEN IsZero(f.aov)
               ELSE SameQuotient(f.aov, revenue, order_count)

\* a summary over a range of two days that holds two active orders, the
\* later on the last day, beside a cancelled one
C23_Witness ==
    /\ last.op = "analytics"
    /\ last.start_d < last.end_d
    /\ Cardinality(ActiveInRange) >= 2
    /\ \E o \in ActiveInRange : Date(db.orders[o].timestamp) = last.end_d
    /\ \E o \in OrdersDated(db, <<last.start_d, last.end_d>>) : db.orders[o].status = "cancelled"
    /\ last.financials.total_cost > 0

\* C24: an order has a cancellation reason (neither NULL nor the empty
\* string) if and only if its status is cancelled, whatever reason was handed
\* to cancel_order.
C24_ReasonIffCancelled ==
    \A o \in DOMAIN db.orders :
        (db.orders[o].cancellation_reason \notin {Null, Some("")})
            <=> db.orders[o].status = "cancelled"

\* the payment modes of the specification
PaymentModeEnum == {"CASH", "CARD", "UPI"}

\* C25: every order on file has payment_mode CASH, CARD or UPI, the orders of
\* the billing screen included, and the payment breakdown groups the active
\* orders into at most those three modes.
C25_PaymentModeIsEnum ==
    /\ \A o \in DOMAIN db.orders : db.orders[o].payment_mode \in PaymentModeEnum
    /\ DOMAIN PaymentPatterns(db) \subseteq PaymentModeEnum
    /\ last.op = "analytics" => DOMAIN last.payments \subseteq PaymentModeEnum

\* some category of the store has this name
NameOnFile(d, text) == \E i \in DOMAIN d.categories : d.categories[i] = text

\* the typed name is, as typed, the name of a category of the store
NamesCategory(d, name) == ~name.padded /\ NameOnFile(d, name.text)

\* category names are pairwise distinct
NamesDistinct(d) ==
    \A i \in DOMAIN d.categories, j \in DOMAIN d.categories :
        i # j => d.categories[i] # d.categories[j]

\* C26 as stated: adding a category under a name on file, or renaming a
\* category to a name on file, is rejected and changes nothing; category
\* names are pairwise distinct in every state; a rename changes no product.
C26_ExistingNameRejected ==
    /\ NamesDistinct(db)
    /\ [][last'.op = "manage_category" =>
            /\ (last'.action = "add" /\ last'.name.text # ""
                    /\ NameOnFile(db, last'.name.text))
                  => (~last'.ok /\ db' = db)
            /\ (last'.action = "rename" /\ NamesCategory(db, last'.name)
                    /\ last'.new_name.text # "" /\ NameOnFile(db, last'.new_name.text))
                  => (~last'.ok /\ db' = db)
            /\ last'.action = "rename" => db'.products = db.products]_vars

\* C26, amended: adding a category under a name on file, or renaming a
\* category to the name of another category, is rejected and changes
\* nothing; renaming a category to its own name succeeds and changes
\* nothing; category names are pairwise distinct in every state; a rename
\* changes no product.
C26_OtherCategoryNameRejected ==
    /\ NamesDistinct(db)
    /\ [][last'.op = "manage_category" =>
            /\ (last'.action = "add" /\ last'.name.text # ""
                    /\ NameOnFile(db, last'.name.text))
                  => (~last'.ok /\ db' = db)
            /\ (last'.action = "rename" /\ NamesCategory(db, last'.name)
                    /\ last'.new_name.text # "" /\ NameOnFile(db, last'.new_name.text))
                  => IF last'.new_name.text = last'.name.text
                     THEN last'.ok /\ db' = db
                     ELSE ~last'.ok /\ db' = db
            /\ last'.action = "rename" => db'.products = db.products]_vars

\* a rename of a stored category to the name of another one was turned down,
\* in a store that holds a third category added by the admin
C26_Witness ==
    /\ last.op = "manage_category" /\ last.action = "rename" /\ ~last.ok
    /\ NamesCategory(db, last.name)
    /\ last.new_name.text # last.name.text /\ NameOnFile(db, last.new_name.text)
    /\ Cardinality(DOMAIN db.categories) >= 3

\* the orders of customer m on file with the status
OrdersOf(d, m, status) ==
    {o \in DOMAIN d.orders :
        d.orders[o].customer_mobile = m /\ d.orders[o].status = status}

\* the counters of every customer are those of the orders on file: visits the
\* number of active orders, spend their total, cancelled_orders the number of
\* cancelled orders
CountersMatchOrders(d) ==
    \A m \in DOMAIN d.customers :
        LET active == OrdersOf(d, m, "active")
        IN  /\ d.customers[m].total_visits = Cardinality(active)
            /\ d.customers[m].total_spent =
                   SumOf([o \in active |-> d.orders[o].total_amount], active)
            /\ d.customers[m].cancelled_orders = Cardinality(OrdersOf(d, m, "cancelled"))

\* C27: of two cancel_order calls for the same active order that run at the
\* same time on connections of their own, each reading the status before the
\* other commits, at most one succeeds, and the customer's total_spent,
\* total_visits and cancelled_orders are adjusted once.
C27_ConcurrentCancelOnce ==
    /\ \A a \in Admins, b \in Admins :
           (/\ a # b
            /\ calls[a].pc = "returned" /\ calls[b].pc = "returned"
            /\ calls[a].order_id = calls[b].order_id)
               => ~(calls[a].ok /\ calls[b].ok)
    /\ CountersMatchOrders(db)

\* C28: from a store with no orders and every customer counter at 0, after
\* any sequence of commits and cancellations each customer's total_visits is
\* the number of their active orders, total_spent the sum of total_amount of
\* their active orders and cancelled_orders the number of their cancelled
\* orders; so total_visits and total_spent are never negative.
C28_CountersFollowOrders ==
    /\ CountersMatchOrders(db)
    /\ \A m \in DOMAIN db.customers :
           db.customers[m].total_visits >= 0 /\ db.customers[m].total_spent >= 0

\* from the store without orders a customer has bought twice and one of the
\* two orders has just been cancelled
C28_Witness ==
    /\ last.op = "cancel_order" /\ last.ok
    /\ SeedOrderId \notin DOMAIN db.orders
    /\ \E m \in DOMAIN db.customers :
           /\ OrdersOf(db, m, "active") # {}
           /\ OrdersOf(db, m, "cancelled") # {}
           /\ db.customers[m].total_spent > 0

\* what stock + sales_count of product p is in store d
OnHandAndSold(d, p) == d.products[p].stock + d.products[p].sales_count

\* the quantity of product p over the order items written by process_order,
\* whatever the status of their order
CommittedQuantity(d, p) ==
    LET lines == {i \in d.order_items : i.product_id = p /\ i.order_id[1] = "INV"}
    IN  SumOf([i \in lines |-> i.quantity], lines)

\* a step changes stock + sales_count by a restock only, which raises it by
\* the restocked quantity: a commit, a cancellation and every other operation
\* leave it as it was
OnlyRestockChangesOnHandAndSold ==
    \A p \in DOMAIN db.products :
        IF last'.op = "restock_product"
        THEN \A pid \in RestockIds, q \in RestockQtys :
                 Restock(pid, q) =>
                     OnHandAndSold(db', p) =
                         OnHandAndSold(db, p) + (IF p = pid /\ q > 0 THEN q ELSE 0)
        ELSE OnHandAndSold(db', p) = OnHandAndSold(db, p)

\* C29 as stated: stock + sales_count of a product is changed only by a
\* restock, which raises it by the restocked quantity, and never by a commit
\* or a cancellation; and sales_count is always the total quantity of the
\* product over the order items committed through process_order, cancelled
\* or not.
C29_SalesCountIsCommittedQuantity ==
    /\ \A p \in DOMAIN db.products :
           db.products[p].sales_count = CommittedQuantity(db, p)
    /\ [][/\ OnlyRestockChangesOnHandAndSold
          /\ \A p \in DOMAIN db.products :
                 db'.products[p].sales_count = CommittedQuantity(db', p)]_vars

\* C29, amended: stock + sales_count of a product is changed only by a
\* restock, which raises it by the restocked quantity, and never by a commit
\* or a cancellation; every step raises sales_count by the quantity of the
\* order items process_order writes in it, so that sales_count is what the
\* seeded history counted plus the total quantity committed through
\* process_order, cancelled or not, and is that total in a store that
\* started without orders.
C29_SalesCountFollowsCommits ==
    /\ SeedOrderId \notin DOMAIN db.orders =>
           \A p \in DOMAIN db.products :
               db.products[p].sales_count = CommittedQuantity(db, p)
    /\ [][/\ OnlyRestockChangesOnHandAndSold
          /\ \A p \in DOMAIN db.products :
                 /\ db'.products[p].sales_count - CommittedQuantity(db', p)
                        = db.products[p].sales_count - CommittedQuantity(db, p)
                 /\ SeedOrderId \notin DOMAIN db'.orders =>
                        db'.products[p].sales_count = CommittedQuantity(db', p)]_vars

\* in a store that started without orders a product was restocked and sold,
\* and the order that sold it has just been cancelled
C29_Witness ==
    /\ last.op = "cancel_order" /\ last.ok
    /\ SeedOrderId \notin DOMAIN db.orders
    /\ \E o \in DOMAIN db.orders : db.orders[o].status = "cancelled"
    /\ db.products[2].sales_count > 0
    /\ OnHandAndSold(db, 2) > SeedProducts[2].stock

====
